---- MODULE Spec2Model ----
(***************************************************************************)
(* Model of enumn's derive(N) procedural macro (src/pa.rs).                *)
(*                                                                         *)
(* A behaviour is one expansion of the macro on one declaration, followed  *)
(* by one call of the function n the expansion emitted.  The declaration   *)
(* is the parsed DeriveInput; the emitted token stream is kept as a        *)
(* structure (signature, dispatched value, discriminant constants, match   *)
(* arms) and RunN gives it the meaning the Rust compiler gives the emitted *)
(* item.  An Option<TokenStream> is a sequence of at most one token tree,  *)
(* which is also what quote! interpolates for it: nothing for None.        *)
(***************************************************************************)
EXTENDS Integers, Sequences, FiniteSets, TLC

VARIABLES input, pc, variants, idx, repr, signature, value, panicked, output, arg, result

vars == <<input, pc, variants, idx, repr, signature, value, panicked, output, arg, result>>

(***************************************************************************)
(* Bounds of the declarations and calls explored.                          *)
(***************************************************************************)
MaxTags == 3
MaxDisc == 2
MaxLead == 1

(***************************************************************************)
(* Integer types.                                                          *)
(***************************************************************************)
IntTypes ==
  {"u8", "u16", "u32", "u64", "u128", "usize", "i8", "i16", "i32", "i64", "i128", "isize"}

Signed(t) == t \in {"i8", "i16", "i32", "i64", "i128", "isize"}

Narrow(t) == t \in {"u8", "i8"}

\* Every integer of the model is far below 2^15, so only the 8-bit types
\* can wrap or exclude a non-negative value.
InRange(v, t) ==
  IF Signed(t)
    THEN Narrow(t) => (v >= -128 /\ v <= 127)
    ELSE v >= 0 /\ (Narrow(t) => v <= 255)

\* The value of `x as t` for an integer x.
Cast(v, t) ==
  IF InRange(v, t) THEN v
  ELSE IF t = "u8" THEN v % 256
  ELSE IF t = "i8" THEN ((v + 128) % 256) - 128
  ELSE v

(***************************************************************************)
(* The input: a parsed DeriveInput.                                        *)
(***************************************************************************)
Discs == {<<>>} \cup {<<k>> : k \in (0 - 1)..MaxDisc}

Variant ==
  [fields : {"Unit"}, disc : Discs] \cup [fields : {"Named", "Unnamed"}, disc : {<<>>}]

VariantLists == UNION {[1..n -> Variant] : n \in 0..MaxTags}

ReprArgs == {<<t>> : t \in IntTypes} \cup {<<"C">>, <<"align", "(2)">>}

LeadAttrs(n) == [i \in 1..n |-> [path |-> "derive", args |-> <<"Debug">>]]

AttrLists ==
  {LeadAttrs(n) \o a : n \in 0..MaxLead,
                       a \in {<<>>} \cup {<<[path |-> "repr", args |-> r]>> : r \in ReprArgs}}

\* The discriminant the compiler assigns to the i-th variant.
RECURSIVE Discr(_, _)
Discr(vs, i) ==
  IF vs[i].disc # <<>> THEN vs[i].disc[1]
  ELSE IF i = 1 THEN 0
  ELSE Discr(vs, i - 1) + 1

ReprAttrs(attrs) == {i \in 1..Len(attrs) : attrs[i].path = "repr"}

\* The integer type in which the compiler stores the enum's discriminants.
HostRepr(attrs) ==
  IF \E i \in ReprAttrs(attrs) : Len(attrs[i].args) = 1 /\ attrs[i].args[1] \in IntTypes
    THEN (CHOOSE t \in IntTypes :
            \E i \in ReprAttrs(attrs) : attrs[i].args = <<t>>)
    ELSE "isize"

\* Enums the compiler accepts: distinct discriminants that fit the enum's
\* integer type, and no representation hint on a zero-variant enum.
WellFormedEnum(attrs, vs) ==
  /\ \A i \in 1..Len(vs) : InRange(Discr(vs, i), HostRepr(attrs))
  /\ \A i, j \in 1..Len(vs) : i # j => Discr(vs, i) # Discr(vs, j)
  /\ Len(vs) = 0 => ReprAttrs(attrs) = {}

Decls ==
  {[kind |-> "Enum", attrs |-> a, variants |-> vs] :
      <<a, vs>> \in {p \in AttrLists \X VariantLists : WellFormedEnum(p[1], p[2])}}
  \cup
  [kind : {"Struct", "Union"}, attrs : AttrLists, variants : {<<>>}]

(***************************************************************************)
(* The stages of derive.                                                   *)
(***************************************************************************)
\* Variant of EnumData that also lets a union through to the variant scan.
EnumOrUnionData(d) == d.kind \in {"Enum", "Union"}

\* match input.data: only an enum has variants.
EnumData(d) == d.kind = "Enum"

\* panic!("input must be an enum")
PanicMessage == "input must be an enum"

\* Variant of IsPayload that forgets the positional-field arm.
IsNamedPayload(v) == v.fields = "Named"

\* match variant.fields: the arms that reject the variant.
IsPayload(v) == v.fields \in {"Named", "Unnamed"}

\* Variant of VariantError that takes the span of the enum's own name.
VariantErrorEnumSpan(i) ==
  [message |-> "enumn: variant with data is not supported", span |-> 0]

\* Error::new(variant.ident.span(), ...): variants are named by position.
VariantError(i) ==
  [message |-> "enumn: variant with data is not supported", span |-> i]

\* input.attrs.iter().find(|attr| attr.path.is_ident("repr")); 0 for None.
FindRepr(attrs) ==
  IF ReprAttrs(attrs) = {} THEN 0
  ELSE CHOOSE i \in ReprAttrs(attrs) : \A j \in ReprAttrs(attrs) : i <= j

\* attr.parse_args::<Ident>(): Ok for exactly one identifier.
ParseArgsIdent(args) == IF Len(args) = 1 THEN <<args[1]>> ELSE <<>>

\* Variant of ResolveRepr whose list of names lacks usize.
ResolveReprNoUsize(attrs) ==
  IF FindRepr(attrs) = 0 THEN <<"i64">>
  ELSE LET name == ParseArgsIdent(attrs[FindRepr(attrs)].args)
       IN  IF name # <<>> /\ name[1] \in IntTypes \ {"usize"} THEN name ELSE <<>>

\* let repr = match ... : an Option<TokenStream>.
ResolveRepr(attrs) ==
  IF FindRepr(attrs) = 0 THEN <<"i64">>
  ELSE LET name == ParseArgsIdent(attrs[FindRepr(attrs)].args)
       IN  IF name # <<>> /\ name[1] \in IntTypes THEN name ELSE <<>>

\* let signature = match &repr
Signature(r) ==
  IF r # <<>>
    THEN [generics |-> <<>>, param |-> r[1]]
    ELSE [generics |-> <<"REPR: Into<i64>">>, param |-> "REPR"]

\* let value = match &repr
Value(r) == IF r # <<>> THEN "value" ELSE "<REPR as Into<i64>>::into(value)"

\* const #variant: #repr = #ident::#variant as #repr;
DeclareDiscriminants(vs, r) ==
  [i \in 1..Len(vs) |-> [variant |-> i, ty |-> r, cast |-> r]]

\* discriminant::#variant => Some(#ident::#variant),
MatchDiscriminants(vs) ==
  [i \in 1..Len(vs) |-> [pattern |-> i, some |-> i]]

\* The impl block handed back to the compiler.
ImplTokens(sig, val, decls, arms) ==
  [signature |-> sig, value |-> val,
   declare_discriminants |-> decls, match_discriminants |-> arms]

NoTokens == [errors |-> <<>>, impl |-> <<>>]

(***************************************************************************)
(* What the compiler makes of the emitted fn n.                            *)
(***************************************************************************)
\* The type of the expression the match dispatches on.
ScrutineeType(impl) ==
  IF impl.value = "value" THEN impl.signature.param ELSE "i64"

\* The emitted item compiles: every constant has a type, the cast has a
\* target, and the constants have the type of the matched expression.
Compiles(impl) ==
  \A i \in 1..Len(impl.declare_discriminants) :
    LET c == impl.declare_discriminants[i]
    IN  /\ Len(c.ty) = 1 /\ c.cast = c.ty
        /\ c.ty[1] \in IntTypes
        /\ c.ty[1] = ScrutineeType(impl)

\* The arms of the match whose constant equals the dispatched value.
Matching(d, impl, v) ==
  {i \in 1..Len(impl.match_discriminants) :
     LET c == impl.declare_discriminants[impl.match_discriminants[i].pattern]
     IN  Cast(Discr(d.variants, c.variant), c.cast[1]) = v}

\* n(v): the first matching arm, or None.
RunN(d, impl, v) ==
  IF ~Compiles(impl) THEN <<"CompileError">>
  ELSE IF Matching(d, impl, v) = {} THEN <<"None">>
  ELSE LET i == CHOOSE a \in Matching(d, impl, v) : \A b \in Matching(d, impl, v) : a <= b
       IN  <<"Some", impl.match_discriminants[i].some>>

\* The values a caller can pass to n.
Accepts(impl, v) ==
  impl.signature.generics = <<>> /\ impl.signature.param \in IntTypes
    => InRange(v, impl.signature.param)

InputVals == (0 - 1)..(MaxDisc + MaxTags)

(***************************************************************************)
(* The expansion, step by step.                                            *)
(***************************************************************************)
Init ==
  /\ input \in Decls
  /\ pc = "start"
  /\ variants = <<>>
  /\ idx = 0
  /\ repr = <<>>
  /\ signature = <<>>
  /\ value = <<>>
  /\ panicked = <<>>
  /\ output = NoTokens
  /\ arg = <<>>
  /\ result = <<>>

MatchEnum ==
  /\ pc = "start"
  /\ EnumData(input)
  /\ variants' = input.variants
  /\ idx' = 1
  /\ pc' = "validate"
  /\ UNCHANGED <<input, repr, signature, value, panicked, output, arg, result>>

MatchNotEnum ==
  /\ pc = "start"
  /\ ~EnumData(input)
  /\ panicked' = <<PanicMessage>>
  /\ pc' = "done"
  /\ UNCHANGED <<input, variants, idx, repr, signature, value, output, arg, result>>

CheckUnit ==
  /\ pc = "validate"
  /\ idx <= Len(variants)
  /\ ~IsPayload(variants[idx])
  /\ idx' = idx + 1
  /\ UNCHANGED <<input, pc, variants, repr, signature, value, panicked, output, arg, result>>

CheckPayload ==
  /\ pc = "validate"
  /\ idx <= Len(variants)
  /\ IsPayload(variants[idx])
  /\ output' = [errors |-> <<VariantError(idx)>>, impl |-> <<>>]
  /\ pc' = "done"
  /\ UNCHANGED <<input, variants, idx, repr, signature, value, panicked, arg, result>>

Resolve ==
  /\ pc = "validate"
  /\ idx > Len(variants)
  /\ repr' = ResolveRepr(input.attrs)
  /\ pc' = "signature"
  /\ UNCHANGED <<input, variants, idx, signature, value, panicked, output, arg, result>>

BuildSignature ==
  /\ pc = "signature"
  /\ signature' = <<Signature(repr)>>
  /\ value' = <<Value(repr)>>
  /\ pc' = "emit"
  /\ UNCHANGED <<input, variants, idx, repr, panicked, output, arg, result>>

Emit ==
  /\ pc = "emit"
  /\ output' = [errors |-> <<>>,
                impl |-> <<ImplTokens(signature[1], value[1],
                                      DeclareDiscriminants(variants, repr),
                                      MatchDiscriminants(variants))>>]
  /\ pc' = "done"
  /\ UNCHANGED <<input, variants, idx, repr, signature, value, panicked, arg, result>>

\* A caller applies the emitted n to a value.
CallN ==
  /\ pc = "done"
  /\ output.impl # <<>>
  /\ \E v \in InputVals :
       /\ Accepts(output.impl[1], v)
       /\ arg' = <<v>>
       /\ result' = RunN(input, output.impl[1], v)
  /\ pc' = "called"
  /\ UNCHANGED <<input, variants, idx, repr, signature, value, panicked, output>>

Next ==
  \/ MatchEnum
  \/ MatchNotEnum
  \/ CheckUnit
  \/ CheckPayload
  \/ Resolve
  \/ BuildSignature
  \/ Emit
  \/ CallN

Spec == Init /\ [][Next]_vars

\* derive as one function of the declaration: what the caller gets back.
Expand(d) ==
  IF ~EnumData(d) THEN [panicked |-> <<PanicMessage>>, output |-> NoTokens]
  ELSE IF \E i \in 1..Len(d.variants) : IsPayload(d.variants[i])
    THEN LET first == CHOOSE i \in 1..Len(d.variants) :
                        /\ IsPayload(d.variants[i])
                        /\ \A j \in 1..(i - 1) : ~IsPayload(d.variants[j])
         IN  [panicked |-> <<>>,
              output |-> [errors |-> <<VariantError(first)>>, impl |-> <<>>]]
    ELSE LET r == ResolveRepr(d.attrs)
         IN  [panicked |-> <<>>,
              output |-> [errors |-> <<>>,
                          impl |-> <<ImplTokens(Signature(r), Value(r),
                                                DeclareDiscriminants(d.variants, r),
                                                MatchDiscriminants(d.variants))>>]]

(***************************************************************************)
(* Vocabulary of the properties.                                           *)
(***************************************************************************)
Done == pc \in {"done", "called"}

Called == pc = "called"

PayloadTags(vs) == {i \in 1..Len(vs) : vs[i].fields # "Unit"}

ExplicitTags(vs) == {i \in 1..Len(vs) : vs[i].disc # <<>>}

Valid(d) == d.kind = "Enum" /\ PayloadTags(d.variants) = {}

\* The representation annotations of a declaration (at most one here).
Annotations(d) == {d.attrs[i].args : i \in ReprAttrs(d.attrs)}

Absent(d) == Annotations(d) = {}

Recognized(d) == \E t \in IntTypes : Annotations(d) = {<<t>>}

Unrecognized(d) == ~Absent(d) /\ ~Recognized(d)

WithoutAnnotation(d) ==
  [d EXCEPT !.attrs = LeadAttrs(Len(d.attrs) - Cardinality(ReprAttrs(d.attrs)))]

GenericSignature == [generics |-> <<"REPR: Into<i64>">>, param |-> "REPR"]

IntoI64 == "<REPR as Into<i64>>::into(value)"

\* The tags of the declaration whose discriminant is v.
TagsAt(d, v) == {i \in 1..Len(d.variants) : Discr(d.variants, i) = v}

\* What an exact-equality lookup of v among the discriminants returns.
Lookup(d, v) ==
  IF TagsAt(d, v) = {} THEN <<"None">>
  ELSE <<"Some", CHOOSE i \in TagsAt(d, v) : TRUE>>

\* The expansion finished exactly as derive, taken as one function, says.
ExpandAgrees ==
  Done => Expand(input) = [panicked |-> panicked, output |-> output]

(***************************************************************************)
(* C1.  As stated: a declaration with payload-bearing tags fails with one  *)
(* diagnostic per offending tag, the diagnostics naming exactly the set of *)
(* payload-bearing tags.                                                   *)
(***************************************************************************)
C1_EveryPayloadTagReported ==
  (Done /\ input.kind = "Enum" /\ PayloadTags(input.variants) # {})
    => /\ output.impl = <<>>
       /\ Len(output.errors) = Cardinality(PayloadTags(input.variants))
       /\ {output.errors[i].span : i \in 1..Len(output.errors)}
            = PayloadTags(input.variants)

\* C1 as amended: the failure carries exactly one diagnostic, "variant with
\* data is not supported", naming the first payload-bearing tag in
\* declaration order, and no conversion.
C1_FirstPayloadTagReported ==
  (Done /\ input.kind = "Enum" /\ PayloadTags(input.variants) # {})
    => /\ panicked = <<>>
       /\ output.impl = <<>>
       /\ Len(output.errors) = 1
       /\ output.errors[1].message = "enumn: variant with data is not supported"
       /\ output.errors[1].span \in PayloadTags(input.variants)
       /\ \A j \in PayloadTags(input.variants) : output.errors[1].span <= j

C1_Witness ==
  /\ Done
  /\ input.kind = "Enum"
  /\ Cardinality(PayloadTags(input.variants)) = 2
  /\ 1 \notin PayloadTags(input.variants)
  /\ Len(output.errors) = 1

(***************************************************************************)
(* C2.  As stated: every failure is returned as data; a struct or a union  *)
(* yields a returned WrongInputKind failure value, never a panic.          *)
(***************************************************************************)
C2_WrongInputKindReturned ==
  (Done /\ input.kind # "Enum") => (panicked = <<>> /\ output.errors # <<>>)

\* C2 as amended: a payload failure is returned as data (diagnostics in the
\* returned token stream, no panic); a struct or a union makes the call
\* panic with "input must be an enum" and return nothing, and nothing else
\* panics.
C2_PanicOnlyOnNonEnum ==
  Done =>
    /\ (panicked # <<>>) <=> (input.kind # "Enum")
    /\ panicked # <<>> => (panicked = <<"input must be an enum">> /\ output = NoTokens)
    /\ (input.kind = "Enum" /\ PayloadTags(input.variants) # {})
         => (panicked = <<>> /\ output.errors # <<>>)

C2_Witness ==
  /\ Done
  /\ input.kind = "Union"
  /\ panicked = <<"input must be an enum">>
  /\ output = NoTokens

(***************************************************************************)
(* C3.  A valid enum with no representation annotation gets the generic    *)
(* conversion: n<REPR: Into<i64>>(value: REPR), normalised to i64 before   *)
(* the dispatch.                                                           *)
(***************************************************************************)
C3_AbsentIsGeneric ==
  (Done /\ Valid(input) /\ Absent(input))
    => /\ output.impl # <<>>
       /\ output.impl[1].signature = GenericSignature
       /\ output.impl[1].value = IntoI64

(***************************************************************************)
(* C4.  An unrecognized annotation is treated as absent: the expansion of  *)
(* a valid enum with it equals the expansion of the same enum without it.  *)
(***************************************************************************)
C4_UnrecognizedAsAbsent ==
  (Done /\ Valid(input) /\ Unrecognized(input))
    => output = Expand(WithoutAnnotation(input)).output

(***************************************************************************)
(* C5.  Round trip: for a valid enum, n(d) is Some(T) for the tag T of     *)
(* discriminant d, for that value only, and n(v) is None when v is no      *)
(* tag's discriminant.                                                     *)
(***************************************************************************)
C5_RoundTrip ==
  (Called /\ Valid(input)) => result = Lookup(input, arg[1])

(***************************************************************************)
(* C6.  With unit tags only and no explicit discriminant, n(i) is the      *)
(* i-th tag (counted from 0) for i below the tag count, None otherwise.    *)
(***************************************************************************)
C6_DeclarationOrder ==
  (Called /\ Valid(input) /\ ExplicitTags(input.variants) = {})
    => IF arg[1] >= 0 /\ arg[1] < Len(input.variants)
         THEN result = <<"Some", arg[1] + 1>>
         ELSE result = <<"None">>

(***************************************************************************)
(* C7.  With an explicit discriminant k on a tag T, n(k) is Some(T); a tag *)
(* without one answers to the preceding tag's value + 1, or to 0 when it   *)
(* is the first tag.                                                       *)
(***************************************************************************)
C7_ExplicitThenSuccessor ==
  (Called /\ Valid(input) /\ ExplicitTags(input.variants) # {})
    => \A i \in 1..Len(input.variants) :
         LET vs == input.variants
             d  == IF vs[i].disc # <<>> THEN vs[i].disc[1]
                   ELSE IF i = 1 THEN 0
                   ELSE Discr(vs, i - 1) + 1
         IN  arg[1] = d => result = <<"Some", i>>

(***************************************************************************)
(* C8.  A valid enum annotated with one of the twelve integer types gets   *)
(* n over exactly that type: no generic parameter, no conversion of the    *)
(* input, every discriminant constant declared and cast in that type, and  *)
(* n answers by exact lookup among the discriminants.                      *)
(***************************************************************************)
C8_AnnotatedTypeIsExact ==
  (Done /\ Valid(input) /\ Recognized(input))
    => LET t == CHOOSE u \in IntTypes : Annotations(input) = {<<u>>}
       IN  /\ output.impl # <<>>
           /\ output.impl[1].signature = [generics |-> <<>>, param |-> t]
           /\ output.impl[1].value = "value"
           /\ Len(output.impl[1].declare_discriminants) = Len(input.variants)
           /\ \A i \in 1..Len(input.variants) :
                output.impl[1].declare_discriminants[i]
                  = [variant |-> i, ty |-> <<t>>, cast |-> <<t>>]
           /\ Called => (InRange(arg[1], t) /\ result = Lookup(input, arg[1]))

C8_Witness ==
  /\ Called
  /\ Annotations(input) = {<<"u8">>}
  /\ input.variants = <<[fields |-> "Unit", disc |-> <<2>>],
                        [fields |-> "Unit", disc |-> <<>>]>>
  /\ arg = <<3>>
  /\ result = <<"Some", 2>>

(***************************************************************************)
(* C9.  An input that fails validation (a struct, a union, or an enum with *)
(* a payload-bearing tag) never reaches representation resolution, the     *)
(* signature or the emission, whatever its annotation and other tags, and  *)
(* its output holds no conversion; a conversion comes only from an enum    *)
(* whose tags are all unit.                                                *)
(***************************************************************************)
C9_ValidationShortCircuits ==
  /\ ~Valid(input)
       => /\ pc \in {"start", "validate", "done"}
          /\ repr = <<>> /\ signature = <<>> /\ value = <<>>
          /\ output.impl = <<>>
          /\ arg = <<>> /\ result = <<>>
  /\ output.impl # <<>> => Valid(input)

C9_Witness ==
  /\ pc = "done"
  /\ input.kind = "Enum"
  /\ Annotations(input) = {<<"u16">>}
  /\ Len(input.variants) = 3
  /\ PayloadTags(input.variants) = {2}
  /\ input.variants[2].fields = "Unnamed"
  /\ ExplicitTags(input.variants) = {1}
  /\ output.errors # <<>>
  /\ output.impl = <<>>

(***************************************************************************)
(* C10.  In every emitted conversion each discriminant constant has one    *)
(* concrete integer type, the same for all tags, equal to the type of the  *)
(* value the match dispatches on (the input in fixed mode, i64 in generic  *)
(* mode).                                                                  *)
(***************************************************************************)
C10_DiscriminantsTyped ==
  (Done /\ output.impl # <<>>)
    => \A i \in 1..Len(output.impl[1].declare_discriminants) :
         LET c == output.impl[1].declare_discriminants[i]
         IN  /\ Len(c.ty) = 1
             /\ c.ty[1] \in IntTypes
             /\ c.cast = c.ty
             /\ c.ty = output.impl[1].declare_discriminants[1].ty
             /\ c.ty[1] = (IF output.impl[1].signature.generics = <<>>
                             THEN output.impl[1].signature.param
                             ELSE "i64")

====
